---- MODULE Spec2Model ----
(***************************************************************************)
(* ClickUp MCP server: the credential resolver, the generic ClickUp caller *)
(* and the tool handlers, as a state machine of tool invocations that a    *)
(* single process serves and that interleave at their await points.        *)
(*                                                                         *)
(* Two deployments of the server are modelled, one per source file:        *)
(*   "index"    src/src/index.ts      API key from header or binding       *)
(*   "part_000" src/unnamed/part_000  OAuth variant, accessToken parameter *)
(* (src/unnamed/part_001 has the resolver and caller of index.ts, with a   *)
(* different URL construction).                                            *)
(*                                                                         *)
(* Strings that the code builds by concatenation are sequences of tokens,  *)
(* so that "the text contains X" is a statement about the tokens.          *)
(***************************************************************************)
EXTENDS Integers, Sequences, FiniteSets, TLC

VARIABLES variant, env, registry, kv, pc, tool, input, store, apiKey, calls, resp, result, ret

vars == <<variant, env, registry, kv, pc, tool, input, store, apiKey, calls, resp, result, ret>>

\* ------------------------------------------------------------------ bounds

\* invocations the process may have in flight at once
MaxInv == 2

Inv == 1..MaxInv

\* ------------------------------------------------------------- JS values

UNDEF == "<undefined>"

NULL == "<null>"

\* JavaScript truthiness of a string-or-missing value
Falsy(v) == v \in {"", UNDEF, NULL}

\* a || b
Or(a, b) == IF Falsy(a) THEN b ELSE a

\* --------------------------------------------------- process environment

\* this.env of the index.ts agent: the bindings object, which may be absent,
\* and its CLICKUP_API_KEY binding, which may be unset (undefined) or empty
IndexEnvs ==
    { [present |-> FALSE, CLICKUP_API_KEY |-> UNDEF, OAUTH_KV |-> FALSE],
      [present |-> TRUE,  CLICKUP_API_KEY |-> UNDEF, OAUTH_KV |-> FALSE],
      [present |-> TRUE,  CLICKUP_API_KEY |-> "",    OAUTH_KV |-> FALSE],
      [present |-> TRUE,  CLICKUP_API_KEY |-> "ek",  OAUTH_KV |-> FALSE] }

\* this.env of the part_000 agent: null, or the bindings with the KV namespace
OAuthEnvs ==
    { [present |-> FALSE, CLICKUP_API_KEY |-> UNDEF, OAUTH_KV |-> FALSE],
      [present |-> TRUE,  CLICKUP_API_KEY |-> UNDEF, OAUTH_KV |-> TRUE] }

\* --------------------------------------------- invocation-scoped context

\* context.getStore() of one invocation: no store, a store without request,
\* a request without the X-ClickUp-API-Key header, a request with the header
NoStore == [hasStore |-> FALSE, hasRequest |-> FALSE, header |-> NULL]

Stores ==
    { NoStore,
      [hasStore |-> TRUE, hasRequest |-> FALSE, header |-> NULL],
      [hasStore |-> TRUE, hasRequest |-> TRUE,  header |-> NULL],
      [hasStore |-> TRUE, hasRequest |-> TRUE,  header |-> "hk1"],
      [hasStore |-> TRUE, hasRequest |-> TRUE,  header |-> "hk2"] }

\* the async-local store seen by invocation i: its own
ContextStoreShared(stores, i) == stores[1]

ContextStore(stores, i) == stores[i]

\* store?.request?.headers.get("X-ClickUp-API-Key")
HeaderOf(st) == IF st.hasStore /\ st.hasRequest THEN st.header ELSE UNDEF

\* getApiKey(): [threw, value]; this.env.CLICKUP_API_KEY is only evaluated when
\* the header key is falsy, and reading it off an absent env is a TypeError
GetApiKeyEnvFirst(st, e) ==
    IF ~e.present THEN [threw |-> TRUE, value |-> UNDEF]
    ELSE IF ~Falsy(e.CLICKUP_API_KEY) THEN [threw |-> FALSE, value |-> e.CLICKUP_API_KEY]
    ELSE [threw |-> FALSE, value |-> Or(HeaderOf(st), "")]

GetApiKeyCached(st, e) ==
    LET headerKey == Or(HeaderOf(st), "")
        cached == IF \E j \in Inv : ~Falsy(apiKey[j])
                  THEN apiKey[CHOOSE j \in Inv : ~Falsy(apiKey[j])] ELSE UNDEF
    IN  IF ~Falsy(headerKey) THEN [threw |-> FALSE, value |-> headerKey]
        ELSE IF ~e.present THEN [threw |-> TRUE, value |-> UNDEF]
        ELSE [threw |-> FALSE, value |-> Or(e.CLICKUP_API_KEY, cached)]

GetApiKeyFrozen(st, e) ==
    IF ~e.present THEN [threw |-> TRUE, value |-> UNDEF]
    ELSE [threw |-> FALSE, value |-> e.CLICKUP_API_KEY]

GetApiKey(st, e) ==
    LET headerKey == Or(HeaderOf(st), "")
    IN  IF ~Falsy(headerKey) THEN [threw |-> FALSE, value |-> headerKey]
        ELSE IF ~e.present THEN [threw |-> TRUE, value |-> UNDEF]
        ELSE [threw |-> FALSE, value |-> e.CLICKUP_API_KEY]

\* ------------------------------------------------------ upstream responses

\* a response body: the raw text, whether it is valid JSON, and the value it
\* parses to (written in its canonical serialization)
ErrBody == [raw |-> "{\"err\": \"not found\"}", valid |-> TRUE, parsed |-> "{\"err\":\"not found\"}"]

OkBody == [raw |-> "{\"id\": 1}", valid |-> TRUE, parsed |-> "{\"id\":1}"]

HtmlBody == [raw |-> "<html>Bad Gateway</html>", valid |-> FALSE, parsed |-> UNDEF]

NoBody == [raw |-> "", valid |-> FALSE, parsed |-> UNDEF]

\* what fetch() settles with: a rejection (no response at all; the thrown
\* value's message may be empty) or a response, a 204 having an empty body
Responses ==
    { [rejected |-> TRUE,  message |-> "fetch failed", status |-> 0, body |-> NoBody],
      [rejected |-> TRUE,  message |-> "", status |-> 0, body |-> NoBody],
      [rejected |-> FALSE, message |-> "", status |-> 204, body |-> NoBody],
      [rejected |-> FALSE, message |-> "", status |-> 200, body |-> OkBody],
      [rejected |-> FALSE, message |-> "", status |-> 404, body |-> ErrBody],
      [rejected |-> FALSE, message |-> "", status |-> 502, body |-> HtmlBody] }

\* response.ok
ResponseOk(rsp) == rsp.status >= 200 /\ rsp.status <= 299

\* response.json(): [threw, value, message]
ResponseJson(rsp) ==
    IF rsp.body.valid
    THEN [threw |-> FALSE, value |-> rsp.body.parsed, message |-> ""]
    ELSE [threw |-> TRUE, value |-> UNDEF, message |-> "Unexpected token in JSON"]

\* String(n) of the status codes
NumStr(n) ==
    CASE n = 200 -> "200" [] n = 204 -> "204" [] n = 404 -> "404"
      [] n = 502 -> "502" [] OTHER -> "0"

\* ------------------------------------------------------------ tool inputs

\* The validated input of an invocation. The ids that a tool requires are
\* fixed values; accessToken (part_000) and the optional folderId, spaceId
\* and workspaceId of part_000's getLists, createList and createDoc vary.
TeamId == "123"

\* an optional array input: omitted, or its elements in order
NoArr == [given |-> FALSE, items |-> <<>>]

Arr(items) == [given |-> TRUE, items |-> items]

\* the optional inputs of the task and list tools (name, description, content,
\* status, priority, the due date and its time flag, assignee, the unset-status
\* flag, page, statuses, assignees), every one omitted; part_000 names the
\* due date inputs due_date and due_date_time
Omitted ==
    [name |-> UNDEF, description |-> UNDEF, content |-> UNDEF, status |-> UNDEF,
     priority |-> UNDEF, dueDate |-> UNDEF, dueDateTime |-> UNDEF, assignee |-> UNDEF,
     unsetStatus |-> UNDEF, page |-> UNDEF, statuses |-> NoArr, assignees |-> NoArr]

IndexInput ==
    [accessToken |-> UNDEF, folderId |-> "F1", spaceId |-> "S1", workspaceId |-> "W1"]
        @@ Omitted

AccessTokens == {"", "tk1", "tk2"}

\* an object literal: its fields in order, a missing input being undefined
NoArg == [given |-> FALSE, fields |-> <<>>]

Obj(fields) == [given |-> TRUE, fields |-> fields]

\* JSON.stringify(object): fields whose value is undefined are left out
StringifyFields(fields) == SelectSeq(fields, LAMBDA f : f[2] # UNDEF)

\* ------------------------------------------------- index.ts: the tools

IndexTools ==
    { "getAuthorizedUser", "getWorkspaces", "getSpaces", "createSpace", "getSpace",
      "updateSpace", "deleteSpace", "getFolders", "createFolder", "getFolder",
      "updateFolder", "deleteFolder", "getLists", "createList", "getFolderlessList",
      "getList", "updateList", "deleteList", "getTasks", "createTask", "getTask",
      "updateTask", "deleteTask", "searchDocs", "createDoc", "getDoc", "getDocPages",
      "getTaskComments", "createTaskComment" }

\* (getList registered once more, under updateList's place)
IndexRegistrationsTwice ==
    << "getAuthorizedUser", "getWorkspaces", "getSpaces", "createSpace", "getSpace",
       "updateSpace", "deleteSpace", "getFolders", "createFolder", "getFolder",
       "updateFolder", "deleteFolder", "getLists", "createList", "getFolderlessList",
       "getList", "getList", "deleteList", "getTasks", "createTask", "getTask",
       "updateTask", "deleteTask", "searchDocs", "createDoc", "getDoc", "getDocPages",
       "getTaskComments", "createTaskComment" >>

\* the names that init() of index.ts passes to this.server.tool, in order
IndexRegistrations ==
    << "getAuthorizedUser", "getWorkspaces", "getSpaces", "createSpace", "getSpace",
       "updateSpace", "deleteSpace", "getFolders", "createFolder", "getFolder",
       "updateFolder", "deleteFolder", "getLists", "createList", "getFolderlessList",
       "getList", "updateList", "deleteList", "getTasks", "createTask", "getTask",
       "updateTask", "deleteTask", "searchDocs", "createDoc", "getDoc", "getDocPages",
       "getTaskComments", "createTaskComment" >>

\* URLSearchParams.toString() writes a space of a value as "+"
FormEncode(v) == IF v = "in progress" THEN "in+progress" ELSE v

\* (set in place of append: a later element replaces the earlier one)
QueryPairsSet(params) ==
    LET pairsOf(p) ==
            IF p.array
            THEN IF p.value.given /\ p.value.items # <<>>
                 THEN << <<p.key, p.value.items[Len(p.value.items)]>> >>
                 ELSE <<>>
            ELSE IF p.value # UNDEF THEN << <<p.key, p.value>> >> ELSE <<>>
        all[k \in 0..Len(params)] ==
            IF k = 0 THEN <<>> ELSE all[k - 1] \o pairsOf(params[k])
    IN  all[Len(params)]

\* the pairs appended to the URLSearchParams of getTasks, entry by entry: an
\* array one pair per element, another value one pair unless it is undefined
QueryPairs(params) ==
    LET pairsOf(p) ==
            IF p.array
            THEN IF p.value.given
                 THEN [k \in 1..Len(p.value.items) |-> <<p.key, p.value.items[k]>>]
                 ELSE <<>>
            ELSE IF p.value # UNDEF THEN << <<p.key, p.value>> >> ELSE <<>>
        all[k \in 0..Len(params)] ==
            IF k = 0 THEN <<>> ELSE all[k - 1] \o pairsOf(params[k])
    IN  all[Len(params)]

\* "?" and query.toString(), key=value joined by "&", or nothing when no pair
\* was appended
QueryString(pairs) ==
    LET str[k \in 0..Len(pairs)] ==
            IF k = 0 THEN <<>>
            ELSE str[k - 1] \o <<IF k = 1 THEN "?" ELSE "&", pairs[k][1], "=",
                                  FormEncode(pairs[k][2])>>
    IN  str[Len(pairs)]

\* the rest object of getTasks: every input but listId (and accessToken)
GetTasksParams(inp) ==
    << [key |-> "page", array |-> FALSE, value |-> inp.page],
       [key |-> "statuses", array |-> TRUE, value |-> inp.statuses],
       [key |-> "assignees", array |-> TRUE, value |-> inp.assignees] >>

\* (the rest object still holding listId)
CreateTaskDataWithListId(inp) ==
    Obj(<< <<"listId", "L1">>, <<"name", "T">>, <<"description", inp.description>>,
           <<"status", inp.status>>, <<"priority", inp.priority>>,
           <<"dueDate", inp.dueDate>> >>)

\* index.ts createTask: the rest object taskData, every input but listId
\* under the name the input has (assignees and tags omitted)
CreateTaskData(inp) ==
    Obj(<< <<"name", "T">>, <<"description", inp.description>>,
           <<"status", inp.status>>, <<"priority", inp.priority>>,
           <<"dueDate", inp.dueDate>> >>)

\* index.ts updateTask: the rest object taskData, every input but taskId
UpdateTaskData(inp) ==
    Obj(<< <<"name", inp.name>>, <<"description", inp.description>>,
           <<"status", inp.status>>, <<"priority", inp.priority>>,
           <<"dueDate", inp.dueDate>> >>)

\* (a field is set when its input is truthy)
UpdateListBodyTruthy(inp) ==
    Obj(SelectSeq(<< <<"name", inp.name>>, <<"content", inp.content>>,
                     <<"due_date", inp.dueDate>>, <<"due_date_time", inp.dueDateTime>>,
                     <<"priority", inp.priority>>, <<"assignee", inp.assignee>>,
                     <<"status", inp.status>>, <<"unset_status", inp.unsetStatus>> >>,
                  LAMBDA f : ~Falsy(f[2])))

\* index.ts updateList: body starts empty and gets a field, under its upstream
\* name, for each input that is not undefined
UpdateListBody(inp) ==
    Obj(SelectSeq(<< <<"name", inp.name>>, <<"content", inp.content>>,
                     <<"due_date", inp.dueDate>>, <<"due_date_time", inp.dueDateTime>>,
                     <<"priority", inp.priority>>, <<"assignee", inp.assignee>>,
                     <<"status", inp.status>>, <<"unset_status", inp.unsetStatus>> >>,
                  LAMBDA f : f[2] # UNDEF))

\* the (path, method, body) that each index.ts handler passes to callClickUpApi,
\* the optional inputs other than those of IndexInput being omitted
IndexRequest(t, inp) ==
    CASE t = "getAuthorizedUser" -> [path |-> <<"user">>, method |-> "GET", body |-> NoArg]
      [] t = "getWorkspaces" -> [path |-> <<"team">>, method |-> "GET", body |-> NoArg]
      [] t = "getSpaces" ->
           [path |-> <<"team/", TeamId, "/space">>, method |-> "GET", body |-> NoArg]
      [] t = "createSpace" ->
           [path |-> <<"team/", inp.workspaceId, "/space">>, method |-> "POST",
            body |-> Obj(<< <<"name", "N">>, <<"multiple_assignees", "true">>,
                            <<"features", "{features}">> >>)]
      [] t = "getSpace" ->
           [path |-> <<"space/", inp.spaceId>>, method |-> "GET", body |-> NoArg]
      [] t = "updateSpace" ->
           [path |-> <<"space/", inp.spaceId>>, method |-> "PUT",
            body |-> Obj(<< <<"name", "N">>, <<"color", Or(UNDEF, "#7B68EE")>>,
                            <<"private", "false">>, <<"admin_can_manage", UNDEF>>,
                            <<"multiple_assignees", UNDEF>>,
                            <<"features", "{features}">> >>)]
      [] t = "deleteSpace" ->
           [path |-> <<"space/", inp.spaceId>>, method |-> "DELETE", body |-> NoArg]
      [] t = "getFolders" ->
           [path |-> <<"space/", inp.spaceId, "/folder">>, method |-> "GET", body |-> NoArg]
      [] t = "createFolder" ->
           [path |-> <<"space/", inp.spaceId, "/folder">>, method |-> "POST",
            body |-> Obj(<< <<"name", "N">> >>)]
      [] t = "getFolder" ->
           [path |-> <<"folder/", inp.folderId>>, method |-> "GET", body |-> NoArg]
      [] t = "updateFolder" ->
           [path |-> <<"folder/", inp.folderId>>, method |-> "PUT",
            body |-> Obj(<< <<"name", "N">> >>)]
      [] t = "deleteFolder" ->
           [path |-> <<"folder/", inp.folderId>>, method |-> "DELETE", body |-> NoArg]
      [] t = "getLists" ->
           [path |-> <<"folder/", inp.folderId, "/list">>, method |-> "GET", body |-> NoArg]
      [] t = "createList" ->
           [path |-> <<"folder/", inp.folderId, "/list">>, method |-> "POST",
            body |-> Obj(<< <<"name", "N">>, <<"content", UNDEF>> >>)]
      [] t = "getFolderlessList" ->
           [path |-> <<"space/", inp.spaceId, "/list">>, method |-> "GET", body |-> NoArg]
      [] t = "getList" -> [path |-> <<"list/", "L1">>, method |-> "GET", body |-> NoArg]
      [] t = "updateList" ->
           [path |-> <<"list/", "L1">>, method |-> "PUT", body |-> UpdateListBody(inp)]
      [] t = "deleteList" -> [path |-> <<"list/", "L1">>, method |-> "DELETE", body |-> NoArg]
      [] t = "getTasks" ->
           [path |-> <<"list/", "L1", "/task">> \o QueryString(QueryPairs(GetTasksParams(inp))),
            method |-> "GET", body |-> NoArg]
      [] t = "createTask" ->
           [path |-> <<"list/", "L1", "/task">>, method |-> "POST",
            body |-> CreateTaskData(inp)]
      [] t = "getTask" -> [path |-> <<"task/", "T1">>, method |-> "GET", body |-> NoArg]
      [] t = "updateTask" ->
           [path |-> <<"task/", "T1">>, method |-> "PUT", body |-> UpdateTaskData(inp)]
      [] t = "deleteTask" -> [path |-> <<"task/", "T1">>, method |-> "DELETE", body |-> NoArg]
      [] t = "searchDocs" ->
           [path |-> <<"/v3", "/workspaces/", TeamId, "/docs",
                       "?deleted=false&archived=false&limit=50">>,
            method |-> "GET", body |-> NoArg]
      [] t = "createDoc" ->
           [path |-> <<"team/", inp.workspaceId, "/doc">>, method |-> "POST",
            body |-> Obj(<< <<"title", "D">> >>)]
      [] t = "getDoc" ->
           [path |-> <<"/v3", "/workspaces/", TeamId, "/docs/", "D1">>,
            method |-> "GET", body |-> NoArg]
      [] t = "getDocPages" ->
           [path |-> <<"/v3", "/workspaces/", TeamId, "/docs/", "D1", "/pages",
                       "?max_page_depth=-1&content_format=text%2Fmd">>,
            method |-> "GET", body |-> NoArg]
      [] t = "getTaskComments" ->
           [path |-> <<"task/", "T1", "/comment">>, method |-> "GET", body |-> NoArg]
      [] t = "createTaskComment" ->
           [path |-> <<"task/", "T1", "/comment">>, method |-> "POST",
            body |-> Obj(<< <<"comment_text", "hello">> >>)]

\* ------------------------------------------- index.ts: callClickUpApi

\* path.startsWith("/v3") and endpointPath.startsWith("/"), on tokens
StartsWithV3(path) == path # <<>> /\ Head(path) = "/v3"

StartsWithSlash(path) == path # <<>> /\ Head(path) \in {"/v3", "/workspaces/"}

\* the url of callClickUpApi
ApiUrl(path) ==
    LET apiVersion == IF StartsWithV3(path) THEN "v3" ELSE "v2"
        endpointPath == IF StartsWithV3(path) THEN Tail(path) ELSE path
    IN  <<"https://api.clickup.com/api/", apiVersion>>
          \o (IF StartsWithSlash(endpointPath) THEN endpointPath ELSE <<"/">> \o endpointPath)

\* (headers without Authorization)
ApiCallNoAuthorization(path, method, key, body) ==
    LET attach == body.given /\ method \in {"POST", "PUT", "PATCH"}
    IN  [url |-> ApiUrl(path), method |-> method,
         Authorization |-> UNDEF, ContentType |-> "application/json",
         hasBody |-> attach,
         body |-> IF attach THEN StringifyFields(body.fields) ELSE <<>>]

\* (a body attached whatever the method)
ApiCallBodyAnyMethod(path, method, key, body) ==
    [url |-> ApiUrl(path), method |-> method,
     Authorization |-> key, ContentType |-> "application/json",
     hasBody |-> body.given,
     body |-> IF body.given THEN StringifyFields(body.fields) ELSE <<>>]

\* the fetch(url, options) that callClickUpApi issues
ApiCall(path, method, key, body) ==
    LET attach == body.given /\ method \in {"POST", "PUT", "PATCH"}
    IN  [url |-> ApiUrl(path), method |-> method,
         Authorization |-> key, ContentType |-> "application/json",
         hasBody |-> attach,
         body |-> IF attach THEN StringifyFields(body.fields) ELSE <<>>]

\* ------------------------------------------- part_001: callClickUpApi

\* the url of part_001's callClickUpApi: the version is chosen from the path
\* and the path is appended as it is
ApiUrl001(path) ==
    LET apiVersion == IF StartsWithV3(path) THEN "v3" ELSE "v2"
    IN  <<"https://api.clickup.com/api/", apiVersion>>
          \o (IF StartsWithSlash(path) THEN path ELSE <<"/">> \o path)

\* the fetch(url, options) that part_001's callClickUpApi issues
ApiCall001(path, method, key, body) ==
    [ApiCall(path, method, key, body) EXCEPT !.url = ApiUrl001(path)]

\* ------------------------------------ callClickUpApi: outcome (both files)

\* (a catch that reports a status of its own)
ApiResultCatchStatus(rsp) ==
    IF rsp.rejected \/ ResponseJson(rsp).threw
    THEN [threw |-> FALSE, isError |-> TRUE,
          error |-> <<"\"", Or(IF rsp.rejected THEN rsp.message ELSE ResponseJson(rsp).message,
                               "Unknown error occurred"), "\"">>,
          hasStatus |-> TRUE, status |-> rsp.status, value |-> UNDEF]
    ELSE IF ~ResponseOk(rsp)
    THEN [threw |-> FALSE, isError |-> TRUE, error |-> <<ResponseJson(rsp).value>>,
          hasStatus |-> TRUE, status |-> rsp.status, value |-> UNDEF]
    ELSE [threw |-> FALSE, isError |-> FALSE, error |-> <<>>,
          hasStatus |-> FALSE, status |-> 0, value |-> ResponseJson(rsp).value]

\* what callClickUpApi returns once fetch has settled with rsp: the parsed
\* body, {error, status} or {error}; whatever is thrown inside the try
\* (the rejection of fetch, a body that does not parse) is caught
ApiResult(rsp) ==
    IF rsp.rejected \/ ResponseJson(rsp).threw
    THEN [threw |-> FALSE, isError |-> TRUE,
          error |-> <<"\"", Or(IF rsp.rejected THEN rsp.message ELSE ResponseJson(rsp).message,
                               "Unknown error occurred"), "\"">>,
          hasStatus |-> FALSE, status |-> 0, value |-> UNDEF]
    ELSE IF ~ResponseOk(rsp)
    THEN [threw |-> FALSE, isError |-> TRUE, error |-> <<ResponseJson(rsp).value>>,
          hasStatus |-> TRUE, status |-> rsp.status, value |-> UNDEF]
    ELSE [threw |-> FALSE, isError |-> FALSE, error |-> <<>>,
          hasStatus |-> FALSE, status |-> 0, value |-> ResponseJson(rsp).value]

\* the handler's local result before callClickUpApi has returned
NoResult ==
    [threw |-> FALSE, isError |-> FALSE, error |-> <<>>, hasStatus |-> FALSE,
     status |-> 0, value |-> UNDEF]

\* the response slot of an invocation whose fetch has not settled
NoResponse == [rejected |-> FALSE, message |-> "", status |-> 0, body |-> NoBody]

\* JSON.stringify(result) of a callClickUpApi result
StringifyResult(r) ==
    IF ~r.isError THEN <<r.value>>
    ELSE <<"{\"error\":">> \o r.error
           \o (IF r.hasStatus THEN <<",\"status\":", NumStr(r.status)>> ELSE <<>>)
           \o <<"}">>

\* ---------------------------------------------------- handler return values

\* what a handler invocation ends with: nothing yet, a returned Envelope
\* {content: [{type, text}]}, or an exception that leaves the handler
NoRet == [kind |-> "none", content |-> <<>>]

Envelope(text) == [kind |-> "envelope", content |-> << [type |-> "text", text |-> text] >>]

Thrown(message) == [kind |-> "throw", content |-> << [type |-> "error", text |-> message] >>]

\* ------------------------------------------------ index.ts: the handlers

\* the text returned when getApiKey() gives a falsy key
MissingKeyText(t) ==
    IF t \in {"getAuthorizedUser", "getWorkspaces"}
    THEN <<"API key", " missing. Set 'CLICKUP_API_KEY' binding or 'X-ClickUp-API-Key' header.">>
    ELSE <<"API key", " missing.">>

\* a handler of index.ts, from its call to the await of fetch (or to its
\* return when it ends before): [pc, apiKey, calls, ret]
IndexHandler(t, inp, st, e) ==
    LET k == GetApiKey(st, e)
        rq == IndexRequest(t, inp)
    IN  IF k.threw
        THEN [pc |-> "thrown", apiKey |-> UNDEF, calls |-> <<>>,
              ret |-> Thrown(<<"TypeError: Cannot read properties of undefined">>)]
        ELSE IF Falsy(k.value)
        THEN [pc |-> "done", apiKey |-> k.value, calls |-> <<>>,
              ret |-> Envelope(MissingKeyText(t))]
        ELSE [pc |-> "fetch", apiKey |-> k.value,
              calls |-> <<ApiCall(rq.path, rq.method, k.value, rq.body)>>,
              ret |-> NoRet]

\* the same handler once fetch has settled with rsp: callClickUpApi returns
\* and the handler wraps JSON.stringify(result); no further call is issued
IndexResumeRetry(cs, rsp) ==
    IF ApiResult(rsp).isError
    THEN [pc |-> "fetch", calls |-> Append(cs, cs[1]), result |-> NoResult, ret |-> NoRet]
    ELSE [pc |-> "done", calls |-> cs, result |-> ApiResult(rsp),
          ret |-> Envelope(StringifyResult(ApiResult(rsp)))]

\* (the outcome of callClickUpApi returned as it is, without the Envelope)
IndexResumeUnwrapped(cs, rsp) ==
    [pc |-> "done", calls |-> cs, result |-> ApiResult(rsp),
     ret |-> [kind |-> "value", content |-> <<>>]]

IndexResume(cs, rsp) ==
    [pc |-> "done", calls |-> cs, result |-> ApiResult(rsp),
     ret |-> Envelope(StringifyResult(ApiResult(rsp)))]

\* ------------------------------------------------- part_000: the tools

OAuthTools ==
    { "auth", "getAuthorizedUser", "getAuthorizedWorkspaces", "getSpaces", "createSpace",
      "getSpace", "updateSpace", "deleteSpace", "getLists", "createList", "getTasks",
      "createTask", "getTask", "updateTask", "deleteTask", "searchDocs", "createDoc",
      "getDoc" }

\* the names that init() of part_000 passes to this.server.tool, in order
OAuthRegistrations ==
    << "auth", "getAuthorizedUser", "getAuthorizedWorkspaces", "getSpaces", "createSpace",
       "getSpace", "updateSpace", "deleteSpace", "getLists", "createList", "getTasks",
       "createTask", "getTask", "updateTask", "deleteTask", "searchDocs", "createDoc",
       "getDoc" >>

\* the schema-valid inputs of a part_000 tool: accessToken is a required
\* string (auth has none), folderId, spaceId and workspaceId are optional
\* where the schema says so (z.string().optional() admits the empty string)
OAuthInputs(t) ==
    { inp @@ Omitted : inp \in
              [accessToken : IF t = "auth" THEN {UNDEF} ELSE AccessTokens,
               folderId : IF t \in {"getLists", "createList"} THEN {"F1", "", UNDEF} ELSE {"F1"},
               spaceId : IF t \in {"getLists", "createList"} THEN {"S1", "", UNDEF} ELSE {"S1"},
               workspaceId : IF t = "createDoc" THEN {"W1", UNDEF} ELSE {"W1"}] }

\* (space first, then folder)
ListEndpointSpaceFirst(inp) ==
    IF ~Falsy(inp.spaceId)
    THEN [threw |-> FALSE, endpoint |-> <<"space/", inp.spaceId, "/list">>]
    ELSE IF ~Falsy(inp.folderId)
    THEN [threw |-> FALSE, endpoint |-> <<"folder/", inp.folderId, "/list">>]
    ELSE [threw |-> TRUE, endpoint |-> <<>>]

\* folder first, then space; neither is an Error thrown inside the try
ListEndpoint(inp) ==
    IF ~Falsy(inp.folderId)
    THEN [threw |-> FALSE, endpoint |-> <<"folder/", inp.folderId, "/list">>]
    ELSE IF ~Falsy(inp.spaceId)
    THEN [threw |-> FALSE, endpoint |-> <<"space/", inp.spaceId, "/list">>]
    ELSE [threw |-> TRUE, endpoint |-> <<>>]

\* part_000 createTask: the rest object taskData, every input but accessToken
\* and listId under the name the input has (of the optional inputs,
\* description, status, priority and due_date are modelled)
OAuthCreateTaskData(inp) ==
    Obj(<< <<"name", "T">>, <<"description", inp.description>>,
           <<"status", inp.status>>, <<"priority", inp.priority>>,
           <<"due_date", inp.dueDate>> >>)

\* part_000 updateTask: the rest object taskData, every input but accessToken
\* and taskId
OAuthUpdateTaskData(inp) ==
    Obj(<< <<"name", inp.name>>, <<"description", inp.description>>,
           <<"status", inp.status>>, <<"priority", inp.priority>>,
           <<"due_date", inp.dueDate>> >>)

\* the (endpoint, options, version) that each part_000 handler passes to
\* fetchClickUp, or the Error it throws before; a missing options.method is
\* fetch's default, GET
OAuthRequest(t, inp) ==
    LET R(endpoint, method, body, version) ==
            [threw |-> FALSE, message |-> <<>>, endpoint |-> endpoint,
             method |-> method, body |-> body, version |-> version]
    IN  CASE t = "getAuthorizedUser" -> R(<<"user">>, "GET", NoArg, "v2")
          [] t = "getAuthorizedWorkspaces" -> R(<<"team">>, "GET", NoArg, "v2")
          [] t = "getSpaces" -> R(<<"team/", inp.workspaceId, "/space">>, "GET", NoArg, "v2")
          [] t = "createSpace" ->
               R(<<"team/", inp.workspaceId, "/space">>, "POST",
                 Obj(<< <<"name", "N">>, <<"features", UNDEF>> >>), "v2")
          [] t = "getSpace" -> R(<<"space/", inp.spaceId>>, "GET", NoArg, "v2")
          [] t = "updateSpace" ->
               R(<<"space/", inp.spaceId>>, "PUT",
                 Obj(<< <<"name", UNDEF>>, <<"features", UNDEF>> >>), "v2")
          [] t = "deleteSpace" -> R(<<"space/", inp.spaceId>>, "DELETE", NoArg, "v2")
          [] t = "getLists" ->
               IF ListEndpoint(inp).threw
               THEN [threw |-> TRUE, message |-> <<"Either folderId or spaceId must be provided">>,
                     endpoint |-> <<>>, method |-> "GET", body |-> NoArg, version |-> "v2"]
               ELSE R(ListEndpoint(inp).endpoint, "GET", NoArg, "v2")
          [] t = "createList" ->
               IF ListEndpoint(inp).threw
               THEN [threw |-> TRUE, message |-> <<"Either folderId or spaceId must be provided">>,
                     endpoint |-> <<>>, method |-> "POST", body |-> NoArg, version |-> "v2"]
               ELSE R(ListEndpoint(inp).endpoint, "POST", Obj(<< <<"name", "N">> >>), "v2")
          [] t = "getTasks" ->
               R(<<"list/", "L1", "/task">> \o QueryString(QueryPairs(GetTasksParams(inp))),
                 "GET", NoArg, "v2")
          [] t = "createTask" ->
               R(<<"list/", "L1", "/task">>, "POST", OAuthCreateTaskData(inp), "v2")
          [] t = "getTask" -> R(<<"task/", "T1">>, "GET", NoArg, "v2")
          [] t = "updateTask" -> R(<<"task/", "T1">>, "PUT", OAuthUpdateTaskData(inp), "v2")
          [] t = "deleteTask" -> R(<<"task/", "T1">>, "DELETE", NoArg, "v2")
          [] t = "searchDocs" -> R(<<"team/", inp.workspaceId, "/doc">>, "GET", NoArg, "v3")
          [] t = "createDoc" ->
               R(IF ~Falsy(inp.workspaceId) THEN <<"team/", inp.workspaceId, "/doc">> ELSE <<"doc">>,
                 "POST",
                 Obj(<< <<"parent", "{parent}">>, <<"title", "D">>, <<"content", UNDEF>> >>),
                 "v3")
          [] t = "getDoc" -> R(<<"doc/", "D1">>, "GET", NoArg, "v3")

\* the text that starts a part_000 handler's catch Envelope
ErrorPrefix(t) ==
    CASE t = "getAuthorizedUser" -> "Error fetching user data: "
      [] t = "getAuthorizedWorkspaces" -> "Error fetching workspaces: "
      [] t = "getSpaces" -> "Error fetching spaces: "
      [] t = "createSpace" -> "Error creating space: "
      [] t = "getSpace" -> "Error fetching space: "
      [] t = "updateSpace" -> "Error updating space: "
      [] t = "deleteSpace" -> "Error deleting space: "
      [] t = "getLists" -> "Error fetching lists: "
      [] t = "createList" -> "Error creating list: "
      [] t = "getTasks" -> "Error fetching tasks: "
      [] t = "createTask" -> "Error creating task: "
      [] t = "getTask" -> "Error fetching task: "
      [] t = "updateTask" -> "Error updating task: "
      [] t = "deleteTask" -> "Error deleting task: "
      [] t = "searchDocs" -> "Error searching docs: "
      [] t = "createDoc" -> "Error creating doc: "
      [] t = "getDoc" -> "Error fetching doc: "
      [] OTHER -> "Authentication error: "

\* ----------------------------------------- part_000: fetchClickUp, auth

\* getApiUrl(endpoint, version)
GetApiUrl(endpoint, version) == <<"https://api.clickup.com/api/", version, "/">> \o endpoint

\* the fetch(url, {...options, headers}) that fetchClickUp issues; an
\* options.body is passed on whatever the method
FetchClickUpCall(endpoint, accessToken, method, body, version) ==
    [url |-> GetApiUrl(endpoint, version), method |-> method,
     Authorization |-> accessToken, ContentType |-> "application/json",
     hasBody |-> body.given,
     body |-> IF body.given THEN StringifyFields(body.fields) ELSE <<>>]

\* the fetch that the auth handler issues itself: no Authorization header
AuthCall ==
    [url |-> <<"https://api.clickup.com/api/v2/oauth/token">>, method |-> "POST",
     Authorization |-> UNDEF, ContentType |-> "application/json",
     hasBody |-> TRUE,
     body |-> << <<"client_id", "c1">>, <<"client_secret", "secret">>, <<"code", "code">>,
                 <<"grant_type", "authorization_code">>,
                 <<"redirect_uri", "https://app/cb">> >>]

\* what fetchClickUp does once fetch has settled with rsp: it returns the
\* parsed body or throws (the rejection, the parse error, or
\* Error("ClickUp API error: " + JSON.stringify(errorData))): [threw, message, value]
FetchClickUpResult(rsp) ==
    IF rsp.rejected
    THEN [threw |-> TRUE, message |-> <<rsp.message>>, value |-> UNDEF]
    ELSE IF ResponseJson(rsp).threw
    THEN [threw |-> TRUE, message |-> <<ResponseJson(rsp).message>>, value |-> UNDEF]
    ELSE IF ~ResponseOk(rsp)
    THEN [threw |-> TRUE, message |-> <<"ClickUp API error: ", ResponseJson(rsp).value>>,
          value |-> UNDEF]
    ELSE [threw |-> FALSE, message |-> <<>>, value |-> ResponseJson(rsp).value]

\* a part_000 handler other than auth, from its call to the await of fetch
\* (or to its return when it throws before): [pc, apiKey, calls, ret]
OAuthHandler(t, inp) ==
    LET rq == OAuthRequest(t, inp)
    IN  IF t = "auth"
        THEN [pc |-> "fetch", apiKey |-> UNDEF, calls |-> <<AuthCall>>, ret |-> NoRet]
        ELSE IF rq.threw
        THEN [pc |-> "done", apiKey |-> inp.accessToken, calls |-> <<>>,
              ret |-> Envelope(<<ErrorPrefix(t)>> \o rq.message)]
        ELSE [pc |-> "fetch", apiKey |-> inp.accessToken,
              calls |-> <<FetchClickUpCall(rq.endpoint, inp.accessToken, rq.method,
                                           rq.body, rq.version)>>,
              ret |-> NoRet]

\* (one key for every client)
TokenKeyShared(clientId) == <<"token:", "c1">>

\* the key under which saveToken and getToken keep a client's token
TokenKey(clientId) == <<"token:", clientId>>

ClientIds == {"c1", "c2"}

KvKeys == { TokenKey(c) : c \in ClientIds }

\* the token data that saveToken is given: the parsed body of an exchange
\* response, a JSON value (null being one)
Tokens == {OkBody.parsed, "{\"access_token\":\"t2\"}", NULL}

\* JSON.stringify(token) of a JSON value: its text, a value being modelled by
\* its compact text and null being written "null"
JsonStringify(v) == IF v = NULL THEN "null" ELSE v

\* JSON.parse(text): [threw, value]
JsonParse(text) ==
    IF text = "null" THEN [threw |-> FALSE, value |-> NULL]
    ELSE IF text \in {"", "undefined", HtmlBody.raw} THEN [threw |-> TRUE, value |-> UNDEF]
    ELSE [threw |-> FALSE, value |-> text]

\* env and its KV namespace are there
KvAvailable(e) == e.present /\ e.OAUTH_KV

\* saveToken(clientId, token): the store after it; nothing is written when
\* env or its KV namespace is missing or when put fails (both only logged)
SaveToken(store_, e, clientId, token, putOk) ==
    IF ~e.present \/ ~e.OAUTH_KV THEN store_
    ELSE IF putOk THEN [store_ EXCEPT ![TokenKey(clientId)] = JsonStringify(token)]
    ELSE store_

\* getToken(clientId): null without env or KV namespace, when get finds
\* nothing, and when get or JSON.parse throws; else the parsed data
GetToken(store_, e, clientId, getOk) ==
    IF ~e.present \/ ~e.OAUTH_KV THEN NULL
    ELSE IF ~getOk THEN NULL
    ELSE IF Falsy(store_[TokenKey(clientId)]) THEN NULL
    ELSE IF JsonParse(store_[TokenKey(clientId)]).threw THEN NULL
    ELSE JsonParse(store_[TokenKey(clientId)]).value

\* what a part_000 handler holds once fetchClickUp has returned or thrown:
\* the value, or the caught error and its message
Caught(message) ==
    [threw |-> TRUE, isError |-> TRUE, error |-> message, hasStatus |-> FALSE,
     status |-> 0, value |-> UNDEF]

Got(value) ==
    [threw |-> FALSE, isError |-> FALSE, error |-> <<>>, hasStatus |-> FALSE,
     status |-> 0, value |-> value]

\* the auth handler once its fetch has settled with rsp: [pc, calls, result, ret, kv]
AuthResume(cs, rsp, store_, e, putOk) ==
    IF rsp.rejected
    THEN [pc |-> "done", calls |-> cs, kv |-> store_, result |-> Caught(<<rsp.message>>),
          ret |-> Envelope(<<"Authentication error: ", rsp.message>>)]
    ELSE IF ResponseJson(rsp).threw
    THEN [pc |-> "done", calls |-> cs, kv |-> store_,
          result |-> Caught(<<ResponseJson(rsp).message>>),
          ret |-> Envelope(<<"Authentication error: ", ResponseJson(rsp).message>>)]
    ELSE IF ~ResponseOk(rsp)
    THEN [pc |-> "done", calls |-> cs, kv |-> store_,
          result |-> Got(ResponseJson(rsp).value),
          ret |-> Envelope(<<"Authentication failed: ", ResponseJson(rsp).value>>)]
    ELSE [pc |-> "done", calls |-> cs,
          kv |-> SaveToken(store_, e, "c1", ResponseJson(rsp).value, putOk),
          result |-> Got(ResponseJson(rsp).value),
          ret |-> Envelope(<<"Authentication successful. You can now use the ClickUp API.">>)]

\* the other part_000 handlers once fetch has settled with rsp: the value is
\* wrapped, a thrown error goes to the handler's catch
OAuthResume(t, cs, rsp, store_, e, putOk) ==
    IF t = "auth" THEN AuthResume(cs, rsp, store_, e, putOk)
    ELSE IF FetchClickUpResult(rsp).threw
    THEN [pc |-> "done", calls |-> cs, kv |-> store_,
          result |-> Caught(FetchClickUpResult(rsp).message),
          ret |-> Envelope(<<ErrorPrefix(t)>> \o FetchClickUpResult(rsp).message)]
    ELSE [pc |-> "done", calls |-> cs, kv |-> store_,
          result |-> Got(FetchClickUpResult(rsp).value),
          ret |-> Envelope(<<FetchClickUpResult(rsp).value>>)]

\* ------------------------------------------------------------ the process

Init ==
    /\ variant \in {"index", "part_000"}
    /\ env \in (IF variant = "index" THEN IndexEnvs ELSE OAuthEnvs)
    /\ registry = <<>>
    /\ kv = [k \in KvKeys |-> UNDEF]
    /\ pc = [i \in Inv |-> "idle"]
    /\ tool = [i \in Inv |-> "none"]
    /\ input = [i \in Inv |-> IndexInput]
    /\ store = [i \in Inv |-> NoStore]
    /\ apiKey = [i \in Inv |-> UNDEF]
    /\ calls = [i \in Inv |-> <<>>]
    /\ resp = [i \in Inv |-> NoResponse]
    /\ result = [i \in Inv |-> NoResult]
    /\ ret = [i \in Inv |-> NoRet]

\* the names of the registered tools
Registered == {registry[k] : k \in 1..Len(registry)}

\* init() runs once, before any tool is invoked: every this.server.tool(name,
\* ...) adds a descriptor to the registry of the server
InitAgent ==
    /\ registry = <<>>
    /\ registry' = (IF variant = "index" THEN IndexRegistrations ELSE OAuthRegistrations)
    /\ UNCHANGED <<variant, env, kv, pc, tool, input, store, apiKey, calls, resp, result, ret>>

\* a handler that has returned or thrown hands its result to the MCP server
\* before the process runs anything else
Quiet == \A j \in Inv : pc[j] \in {"idle", "fetch"}

\* index.ts: a tool is invoked with its own request context; the handler runs
\* up to the await of fetch, or to its end when it issues no call
InvokeIndex(i) ==
    /\ variant = "index"
    /\ pc[i] = "idle"
    /\ Quiet
    /\ \E t \in Registered, st \in Stores :
         LET stores == [store EXCEPT ![i] = st]
             h == IndexHandler(t, IndexInput, ContextStore(stores, i), env)
         IN  /\ tool' = [tool EXCEPT ![i] = t]
             /\ input' = [input EXCEPT ![i] = IndexInput]
             /\ store' = stores
             /\ pc' = [pc EXCEPT ![i] = h.pc]
             /\ apiKey' = [apiKey EXCEPT ![i] = h.apiKey]
             /\ calls' = [calls EXCEPT ![i] = h.calls]
             /\ ret' = [ret EXCEPT ![i] = h.ret]
    /\ UNCHANGED <<variant, env, registry, kv, resp, result>>

\* index.ts: fetch settles, callClickUpApi returns and the handler returns
SettleIndex(i) ==
    /\ variant = "index"
    /\ pc[i] = "fetch"
    /\ Quiet
    /\ \E rsp \in Responses :
         LET h == IndexResume(calls[i], rsp)
         IN  /\ pc' = [pc EXCEPT ![i] = h.pc]
             /\ calls' = [calls EXCEPT ![i] = h.calls]
             /\ resp' = [resp EXCEPT ![i] = rsp]
             /\ result' = [result EXCEPT ![i] = h.result]
             /\ ret' = [ret EXCEPT ![i] = h.ret]
    /\ UNCHANGED <<variant, env, registry, kv, tool, input, store, apiKey>>

\* part_000: a tool is invoked with a schema-valid input
InvokeOAuth(i) ==
    /\ variant = "part_000"
    /\ pc[i] = "idle"
    /\ Quiet
    /\ \E t \in Registered :
         \E inp \in OAuthInputs(t) :
           LET h == OAuthHandler(t, inp)
           IN  /\ tool' = [tool EXCEPT ![i] = t]
               /\ input' = [input EXCEPT ![i] = inp]
               /\ pc' = [pc EXCEPT ![i] = h.pc]
               /\ apiKey' = [apiKey EXCEPT ![i] = h.apiKey]
               /\ calls' = [calls EXCEPT ![i] = h.calls]
               /\ ret' = [ret EXCEPT ![i] = h.ret]
    /\ UNCHANGED <<variant, env, registry, kv, store, resp, result>>

\* part_000: fetch settles; fetchClickUp returns or throws into the handler's
\* catch; auth saves the token, the put succeeding or failing
SettleOAuth(i) ==
    /\ variant = "part_000"
    /\ pc[i] = "fetch"
    /\ Quiet
    /\ \E rsp \in Responses, putOk \in BOOLEAN :
         LET h == OAuthResume(tool[i], calls[i], rsp, kv, env, putOk)
         IN  /\ pc' = [pc EXCEPT ![i] = h.pc]
             /\ calls' = [calls EXCEPT ![i] = h.calls]
             /\ resp' = [resp EXCEPT ![i] = rsp]
             /\ result' = [result EXCEPT ![i] = h.result]
             /\ ret' = [ret EXCEPT ![i] = h.ret]
             /\ kv' = h.kv
    /\ UNCHANGED <<variant, env, registry, tool, input, store, apiKey>>

\* the MCP server takes the handler's result; the invocation is over
Return(i) ==
    /\ pc[i] \in {"done", "thrown"}
    /\ pc' = [pc EXCEPT ![i] = "idle"]
    /\ tool' = [tool EXCEPT ![i] = "none"]
    /\ input' = [input EXCEPT ![i] = IndexInput]
    /\ store' = [store EXCEPT ![i] = NoStore]
    /\ apiKey' = [apiKey EXCEPT ![i] = UNDEF]
    /\ calls' = [calls EXCEPT ![i] = <<>>]
    /\ resp' = [resp EXCEPT ![i] = NoResponse]
    /\ result' = [result EXCEPT ![i] = NoResult]
    /\ ret' = [ret EXCEPT ![i] = NoRet]
    /\ UNCHANGED <<variant, env, registry, kv>>

Next ==
    \/ InitAgent
    \/ \E i \in Inv :
        \/ InvokeIndex(i)
        \/ SettleIndex(i)
        \/ InvokeOAuth(i)
        \/ SettleOAuth(i)
        \/ Return(i)

Spec == Init /\ [][Next]_vars

\* ------------------------------------------- callClickUpApi on its own

\* callClickUpApi(path, method, apiKey, body) applied to arguments of the
\* kinds its callers pass: paths without and with the "/v3" marker, the five
\* methods, no body, an empty object and an object with a field
CallerPaths ==
    { <<"user">>, <<"team/", TeamId, "/space">>, <<"task/", "T1">>,
      <<"/v3", "/workspaces/", TeamId, "/docs">>,
      <<"/v3", "/workspaces/", TeamId, "/docs/", "D1", "/pages">> }

CallerMethods == {"GET", "POST", "PUT", "PATCH", "DELETE"}

CallerBodies == { NoArg, Obj(<<>>), Obj(<< <<"name", "N">>, <<"content", UNDEF>> >>) }

CallerInit ==
    /\ variant \in {"index", "part_001"}
    /\ env = [present |-> TRUE, CLICKUP_API_KEY |-> "ek", OAUTH_KV |-> FALSE]
    /\ registry = <<>>
    /\ kv = [k \in KvKeys |-> UNDEF]
    /\ pc = [i \in Inv |-> "idle"]
    /\ tool = [i \in Inv |-> "none"]
    /\ input = [i \in Inv |-> IndexInput]
    /\ store = [i \in Inv |-> NoStore]
    /\ apiKey = [i \in Inv |-> UNDEF]
    /\ calls = [i \in Inv |-> <<>>]
    /\ resp = [i \in Inv |-> NoResponse]
    /\ result = [i \in Inv |-> NoResult]
    /\ ret = [i \in Inv |-> NoRet]

\* callClickUpApi is called, one call at a time, and runs up to the await of fetch
CallApi(i) ==
    /\ \A j \in Inv : pc[j] = "idle"
    /\ \E path \in CallerPaths, method \in CallerMethods, body \in CallerBodies,
          key \in {"hk1", "ek"} :
         /\ tool' = [tool EXCEPT ![i] = "callClickUpApi"]
         /\ input' = [input EXCEPT ![i] =
                         [path |-> path, method |-> method, body |-> body, apiKey |-> key]]
         /\ apiKey' = [apiKey EXCEPT ![i] = key]
         /\ calls' = [calls EXCEPT ![i] =
                         << IF variant = "part_001"
                            THEN ApiCall001(path, method, key, body)
                            ELSE ApiCall(path, method, key, body) >>]
         /\ pc' = [pc EXCEPT ![i] = "fetch"]
    /\ UNCHANGED <<variant, env, registry, kv, store, resp, result, ret>>

\* fetch settles and callClickUpApi returns its outcome
SettleApi(i) ==
    /\ pc[i] = "fetch"
    /\ \E rsp \in Responses :
         /\ resp' = [resp EXCEPT ![i] = rsp]
         /\ result' = [result EXCEPT ![i] = ApiResult(rsp)]
         /\ pc' = [pc EXCEPT ![i] = "done"]
    /\ UNCHANGED <<variant, env, registry, kv, tool, input, store, apiKey, calls, ret>>

CallerNext ==
    \E i \in Inv :
        \/ CallApi(i)
        \/ SettleApi(i)
        \/ Return(i)

CallerSpec == CallerInit /\ [][CallerNext]_vars

\* ------------------------------------------------------- the token store

\* what saveToken and getToken return
Value(v) == [kind |-> "value", content |-> <<v>>]

TokenInit ==
    /\ variant = "part_000"
    /\ env \in OAuthEnvs
    /\ registry = <<>>
    /\ kv = [k \in KvKeys |-> UNDEF]
    /\ pc = [i \in Inv |-> "idle"]
    /\ tool = [i \in Inv |-> "none"]
    /\ input = [i \in Inv |-> IndexInput]
    /\ store = [i \in Inv |-> NoStore]
    /\ apiKey = [i \in Inv |-> UNDEF]
    /\ calls = [i \in Inv |-> <<>>]
    /\ resp = [i \in Inv |-> NoResponse]
    /\ result = [i \in Inv |-> NoResult]
    /\ ret = [i \in Inv |-> NoRet]

\* saveToken is called, one call at a time; the put succeeds or throws into
\* saveToken's catch
CallSaveToken(i) ==
    /\ \A j \in Inv : pc[j] = "idle"
    /\ \E c \in ClientIds, t \in Tokens, putOk \in BOOLEAN :
         /\ tool' = [tool EXCEPT ![i] = "saveToken"]
         /\ input' = [input EXCEPT ![i] = [clientId |-> c, token |-> t]]
         /\ kv' = SaveToken(kv, env, c, t, putOk)
         /\ result' = [result EXCEPT ![i] =
                          IF KvAvailable(env) /\ ~putOk
                          THEN Caught(<<"put failed">>) ELSE Got(UNDEF)]
         /\ ret' = [ret EXCEPT ![i] = Value(UNDEF)]
         /\ pc' = [pc EXCEPT ![i] = "done"]
    /\ UNCHANGED <<variant, env, registry, store, apiKey, calls, resp>>

\* getToken is called, one call at a time; the get succeeds or throws into
\* getToken's catch
CallGetToken(i) ==
    /\ \A j \in Inv : pc[j] = "idle"
    /\ \E c \in ClientIds, getOk \in BOOLEAN :
         /\ tool' = [tool EXCEPT ![i] = "getToken"]
         /\ input' = [input EXCEPT ![i] = [clientId |-> c]]
         /\ result' = [result EXCEPT ![i] =
                          IF KvAvailable(env) /\ ~getOk
                          THEN Caught(<<"get failed">>) ELSE Got(UNDEF)]
         /\ ret' = [ret EXCEPT ![i] = Value(GetToken(kv, env, c, getOk))]
         /\ pc' = [pc EXCEPT ![i] = "done"]
    /\ UNCHANGED <<variant, env, registry, kv, store, apiKey, calls, resp>>

TokenNext ==
    \E i \in Inv :
        \/ CallSaveToken(i)
        \/ CallGetToken(i)
        \/ Return(i)

TokenSpec == TokenInit /\ [][TokenNext]_vars

\* ------------------------------------------------- the Worker entrypoint

\* url.pathname of the requests
Pathnames == {"/sse", "/sse/message", "/mcp", "/", "/sse/", "/mcp/tools", "/SSE", "/message"}

HttpMethods == {"GET", "POST", "DELETE"}

\* (a path is matched by its prefix)
RoutePrefix(pathname) ==
    IF pathname \in {"/sse", "/sse/message", "/sse/"} THEN "sse"
    ELSE IF pathname \in {"/mcp", "/mcp/tools"} THEN "mcp"
    ELSE "none"

\* default.fetch: the transport that the pathname selects, by strict equality
Route(pathname) ==
    IF pathname = "/sse" \/ pathname = "/sse/message" THEN "sse"
    ELSE IF pathname = "/mcp" THEN "mcp"
    ELSE "none"

\* the request is handed to MyMCP.serveSSE("/sse") or MyMCP.serve("/mcp")
Routed(transport) == [kind |-> transport, content |-> <<>>]

\* new Response("Not found", { status: 404 })
NotFound == [kind |-> "response", content |-> << [status |-> 404, body |-> "Not found"] >>]

\* default.fetch is called with a request, no other request being served
\* (part_000 first sets MyMCP.prototype.env, which the env field of an agent
\* shadows: this.env, drawn by Init, is not changed by it)
WorkerFetch(i) ==
    /\ \A j \in Inv : pc[j] = "idle"
    /\ \E pathname \in Pathnames, method \in HttpMethods :
         /\ tool' = [tool EXCEPT ![i] = "fetch"]
         /\ input' = [input EXCEPT ![i] = [pathname |-> pathname, method |-> method]]
         /\ pc' = [pc EXCEPT ![i] = IF Route(pathname) = "none" THEN "done" ELSE "routed"]
         /\ ret' = [ret EXCEPT ![i] =
                       IF Route(pathname) = "none" THEN NotFound
                       ELSE Routed(Route(pathname))]
    /\ UNCHANGED <<variant, env, registry, kv, store, apiKey, calls, resp, result>>

\* the transport passes a tool call of the routed request to the tool's handler
Dispatch(i) ==
    /\ pc[i] = "routed"
    /\ \E t \in Registered :
         \/ /\ variant = "index"
            /\ \E st \in Stores :
                 LET stores == [store EXCEPT ![i] = st]
                     h == IndexHandler(t, IndexInput, ContextStore(stores, i), env)
                 IN  /\ tool' = [tool EXCEPT ![i] = t]
                     /\ input' = [input EXCEPT ![i] = IndexInput]
                     /\ store' = stores
                     /\ pc' = [pc EXCEPT ![i] = h.pc]
                     /\ apiKey' = [apiKey EXCEPT ![i] = h.apiKey]
                     /\ calls' = [calls EXCEPT ![i] = h.calls]
                     /\ ret' = [ret EXCEPT ![i] = h.ret]
         \/ /\ variant = "part_000"
            /\ \E inp \in OAuthInputs(t) :
                 LET h == OAuthHandler(t, inp)
                 IN  /\ tool' = [tool EXCEPT ![i] = t]
                     /\ input' = [input EXCEPT ![i] = inp]
                     /\ store' = store
                     /\ pc' = [pc EXCEPT ![i] = h.pc]
                     /\ apiKey' = [apiKey EXCEPT ![i] = h.apiKey]
                     /\ calls' = [calls EXCEPT ![i] = h.calls]
                     /\ ret' = [ret EXCEPT ![i] = h.ret]
    /\ UNCHANGED <<variant, env, registry, kv, resp, result>>

\* the transport answers the routed request without a tool call
ServeOther(i) ==
    /\ pc[i] = "routed"
    /\ pc' = [pc EXCEPT ![i] = "done"]
    /\ UNCHANGED <<variant, env, registry, kv, tool, input, store, apiKey, calls, resp,
                   result, ret>>

WorkerNext ==
    \/ InitAgent
    \/ \E i \in Inv :
        \/ WorkerFetch(i)
        \/ Dispatch(i)
        \/ ServeOther(i)
        \/ SettleIndex(i)
        \/ SettleOAuth(i)
        \/ Return(i)

WorkerSpec == Init /\ [][WorkerNext]_vars

\* ------------------------------------- the tools with their optional inputs

\* the optional inputs that a tool's schema has, each omitted or given
Options(t) ==
    LET of(tools, values) == IF t \in tools THEN {UNDEF} \cup values ELSE {UNDEF}
        tasks == {"createTask", "updateTask", "updateList"}
    IN  [name : of({"updateTask", "updateList"}, {"", "N"}),
         description : of({"createTask", "updateTask"}, {"d"}),
         content : of({"updateList"}, {"c"}),
         status : of(tasks, {"open"}),
         priority : of(tasks, {"1"}),
         dueDate : of(tasks, {"1700"}),
         dueDateTime : of({"updateList"}, {"true"}),
         assignee : of({"updateList"}, {"u1"}),
         unsetStatus : of({"updateList"}, {"false"}),
         page : of({"getTasks"}, {"2"}),
         statuses : IF t = "getTasks"
                    THEN {NoArr, Arr(<<>>), Arr(<<"a">>), Arr(<<"a", "b">>),
                          Arr(<<"b", "a">>), Arr(<<"in progress", "a", "a">>)}
                    ELSE {NoArr},
         assignees : IF t = "getTasks" THEN {NoArr, Arr(<<"u1", "u2">>)} ELSE {NoArr}]

IndexInputs(t) == { o @@ IndexInput : o \in Options(t) }

OAuthInputsWith(t) == { o @@ inp : o \in Options(t), inp \in OAuthInputs(t) }

\* index.ts: a tool is invoked, no other invocation being under way
InvokeIndexWith(i) ==
    /\ variant = "index"
    /\ \A j \in Inv : pc[j] = "idle"
    /\ \E t \in Registered, st \in Stores :
         \E inp \in IndexInputs(t) :
           LET stores == [store EXCEPT ![i] = st]
               h == IndexHandler(t, inp, ContextStore(stores, i), env)
           IN  /\ tool' = [tool EXCEPT ![i] = t]
               /\ input' = [input EXCEPT ![i] = inp]
               /\ store' = stores
               /\ pc' = [pc EXCEPT ![i] = h.pc]
               /\ apiKey' = [apiKey EXCEPT ![i] = h.apiKey]
               /\ calls' = [calls EXCEPT ![i] = h.calls]
               /\ ret' = [ret EXCEPT ![i] = h.ret]
    /\ UNCHANGED <<variant, env, registry, kv, resp, result>>

\* part_000: a tool is invoked, no other invocation being under way
InvokeOAuthWith(i) ==
    /\ variant = "part_000"
    /\ \A j \in Inv : pc[j] = "idle"
    /\ \E t \in Registered :
         \E inp \in OAuthInputsWith(t) :
           LET h == OAuthHandler(t, inp)
           IN  /\ tool' = [tool EXCEPT ![i] = t]
               /\ input' = [input EXCEPT ![i] = inp]
               /\ pc' = [pc EXCEPT ![i] = h.pc]
               /\ apiKey' = [apiKey EXCEPT ![i] = h.apiKey]
               /\ calls' = [calls EXCEPT ![i] = h.calls]
               /\ ret' = [ret EXCEPT ![i] = h.ret]
    /\ UNCHANGED <<variant, env, registry, kv, store, resp, result>>

SerialNext ==
    \/ InitAgent
    \/ \E i \in Inv :
        \/ InvokeIndexWith(i)
        \/ SettleIndex(i)
        \/ InvokeOAuthWith(i)
        \/ SettleOAuth(i)
        \/ Return(i)

SerialSpec == Init /\ [][SerialNext]_vars

\* ------------------------------------------------------------- properties

Contains(text, token) == \E k \in 1..Len(text) : text[k] = token

\* the text of the Envelope that invocation i returned
Text(i) == ret[i].content[1].text

Returned(i) == pc[i] = "done" /\ ret[i].kind = "envelope"

\* the X-ClickUp-API-Key header of invocation i's own request is present and non-empty
OwnHeader(i) ==
    /\ store[i].hasStore
    /\ store[i].hasRequest
    /\ store[i].header \notin {NULL, UNDEF, ""}

\* C1: in index.ts every invocation that resolved a credential resolved its own
\* request's X-ClickUp-API-Key header when that is present and non-empty,
\* whatever the binding, and the CLICKUP_API_KEY binding value otherwise
C1_HeaderThenBinding ==
    \A i \in Inv :
        (variant = "index" /\ pc[i] \in {"fetch", "done"}) =>
            /\ OwnHeader(i) => apiKey[i] = store[i].header
            /\ ~OwnHeader(i) => apiKey[i] = env.CLICKUP_API_KEY

\* a header wins over a binding that is set, and a binding serves a request without header
C1_Witness ==
    /\ env.CLICKUP_API_KEY = "ek"
    /\ \E i, j \in Inv :
          /\ pc[i] = "fetch" /\ store[i].header = "hk1" /\ apiKey[i] = "hk1"
          /\ pc[j] = "fetch" /\ ~OwnHeader(j) /\ apiKey[j] = "ek"

\* no credential from any source: no header, no accessToken input, and the
\* CLICKUP_API_KEY binding empty or unset
NoCredential(i) ==
    /\ ~OwnHeader(i)
    /\ Falsy(input[i].accessToken)
    /\ variant = "index" => (env.present /\ Falsy(env.CLICKUP_API_KEY))

\* C2: every tool that takes a credential, invoked with no credential from any
\* source, returns an Envelope whose text contains "API key" and issues no
\* outbound call
C2_MissingKeyEnvelope ==
    \A i \in Inv :
        (pc[i] # "idle" /\ tool[i] # "auth" /\ NoCredential(i)) =>
            /\ Returned(i)
            /\ Contains(Text(i), "API key")
            /\ calls[i] = <<>>

\* the credential of invocation i's own request context: its header, else the
\* process binding; in part_000 its accessToken input (auth sends none)
OwnCredential(i) ==
    IF variant = "index"
    THEN IF OwnHeader(i) THEN store[i].header ELSE env.CLICKUP_API_KEY
    ELSE input[i].accessToken

\* a credential that only another invocation supplied
ForeignOnly(i, c) ==
    /\ c # OwnCredential(i)
    /\ \E j \in Inv \ {i} :
          \/ OwnHeader(j) /\ store[j].header = c
          \/ ~Falsy(input[j].accessToken) /\ input[j].accessToken = c

\* C3: however invocations interleave, the Authorization header of each
\* outbound call is the credential of the calling invocation's own request
\* context, never one that only another invocation supplied
C3_NoCrossTalk ==
    \A i \in Inv :
        \A k \in 1..Len(calls[i]) :
            /\ calls[i][k].Authorization = OwnCredential(i)
            /\ ~ForeignOnly(i, calls[i][k].Authorization)

\* two invocations in flight at once, each with its own header credential
C3_Witness ==
    \E i, j \in Inv :
        /\ i # j
        /\ pc[i] = "fetch" /\ pc[j] = "fetch"
        /\ calls[i][1].Authorization = "hk1"
        /\ calls[j][1].Authorization = "hk2"

\* C4: resolution is evaluated at each invocation: two invocations of one
\* process that carry different header values use different credentials,
\* each its own header, also when a binding was there from the start
C4_ResolvedPerInvocation ==
    \A i, j \in Inv :
        ( /\ variant = "index"
          /\ pc[i] \in {"fetch", "done"} /\ pc[j] \in {"fetch", "done"}
          /\ OwnHeader(i) /\ OwnHeader(j)
          /\ store[i].header # store[j].header ) =>
            /\ apiKey[i] # apiKey[j]
            /\ apiKey[i] = store[i].header
            /\ \A k \in 1..Len(calls[i]) : calls[i][k].Authorization = store[i].header

\* the second of two invocations has completed with its header while the first,
\* started with another header, is still in flight; the binding is set
C4_Witness ==
    /\ env.CLICKUP_API_KEY = "ek"
    /\ \E i, j \in Inv :
          /\ pc[i] = "fetch" /\ apiKey[i] = "hk1"
          /\ pc[j] = "done" /\ apiKey[j] = "hk2" /\ calls[j] # <<>>

\* invocation i starts in this step with neither a header nor a binding value
\* while an earlier invocation of the process holds a resolved credential
StartsBareAfterKeyed(i) ==
    /\ variant = "index"
    /\ env.present /\ Falsy(env.CLICKUP_API_KEY)
    /\ pc[i] = "idle" /\ pc'[i] # "idle"
    /\ ~OwnHeader(i)'
    /\ \E j \in Inv \ {i} : pc[j] = "fetch" /\ ~Falsy(apiKey[j])

\* C5 as claimed: with neither header nor binding the resolver falls back to
\* the credential cached from a previous invocation of the process
C5_CachedFallback ==
    [][\A i \in Inv : StartsBareAfterKeyed(i) => ~Falsy(apiKey'[i])]_vars

\* invocation i starts in this step with neither a header nor a binding value
\* (the binding unset or empty, or no bindings object at all) while an earlier
\* invocation of the process holds a resolved credential
StartsBare(i) ==
    /\ variant = "index"
    /\ Falsy(env.CLICKUP_API_KEY)
    /\ pc[i] = "idle" /\ pc'[i] # "idle"
    /\ ~OwnHeader(i)'
    /\ \E j \in Inv \ {i} : pc[j] = "fetch" /\ ~Falsy(apiKey[j])

\* C5 amended: the resolver has no third source; with neither header nor
\* binding value the invocation resolves no credential and issues no call,
\* whatever earlier invocations resolved, and where the bindings object
\* exists the handler returns the "API key" Envelope
C5_NoCachedFallback ==
    [][\A i \in Inv :
          StartsBare(i) =>
              /\ Falsy(apiKey'[i])
              /\ calls'[i] = <<>>
              /\ pc'[i] \in {"done", "thrown"}
              /\ env.present =>
                    /\ pc'[i] = "done"
                    /\ ret'[i] = Envelope(MissingKeyText(tool'[i]))]_vars

\* an invocation reported absence while another one holds a header credential
C5_Witness ==
    /\ variant = "index"
    /\ env.present /\ Falsy(env.CLICKUP_API_KEY)
    /\ \E i, j \in Inv :
          /\ pc[j] = "fetch" /\ apiKey[j] = "hk1"
          /\ pc[i] = "done" /\ ~OwnHeader(i) /\ calls[i] = <<>>
          /\ Contains(Text(i), "API key")

\* C6: the resolver never raises, whatever the invocation context and env
C6_ResolverNeverRaises ==
    \A i \in Inv : pc[i] # "thrown" /\ ret[i].kind # "throw"

\* C7: an invocation issues at most one outbound call, also after an
\* upstream error or a transport failure
C7_AtMostOneCall ==
    \A i \in Inv : Len(calls[i]) <= 1

\* an invocation has ended on an upstream error or a transport failure, with its one call
C7_Witness ==
    \E i, j \in Inv :
        /\ pc[i] = "done" /\ Len(calls[i]) = 1 /\ resp[i].status = 404
        /\ pc[j] = "fetch" /\ Len(calls[j]) = 1

\* the credential of invocation i is resolvable
Resolvable(i) ==
    IF variant = "index" THEN ~Falsy(OwnCredential(i)) /\ (OwnHeader(i) \/ env.present)
    ELSE tool[i] = "auth" \/ ~Falsy(input[i].accessToken)

\* C8: a schema-valid invocation with a resolvable credential issues exactly
\* one outbound call, with the method and the path of its tool
C8_ExactlyOneCall ==
    \A i \in Inv :
        (pc[i] # "idle" /\ Resolvable(i)) =>
            /\ Len(calls[i]) = 1
            /\ tool[i] = "getSpaces" =>
                  /\ calls[i][1].method = "GET"
                  /\ calls[i][1].url =
                        <<"https://api.clickup.com/api/", "v2", "/", "team/",
                          IF variant = "index" THEN TeamId ELSE "W1", "/space">>
            /\ tool[i] = "deleteTask" =>
                  /\ calls[i][1].method = "DELETE"
                  /\ calls[i][1].url = <<"https://api.clickup.com/api/", "v2", "/", "task/", "T1">>

\* C9: callClickUpApi never throws and for every non-2xx response returns
\* {error: <parsed body>, status: <code>}, the body being valid JSON or not
C9_ErrorAndStatus ==
    \A i \in Inv :
        (variant = "index" /\ pc[i] = "done" /\ calls[i] # <<>>) =>
            /\ ~result[i].threw
            /\ (~resp[i].rejected /\ ~ResponseOk(resp[i])) =>
                  /\ result[i].isError
                  /\ result[i].hasStatus
                  /\ result[i].status = resp[i].status
                  /\ resp[i].body.valid => result[i].error = <<resp[i].body.parsed>>

\* C10: every tool reports an upstream non-2xx response (with a JSON error
\* body) as an Envelope whose text contains the serialized upstream error body
\* and the status code
C10_BodyAndStatusInText ==
    \A i \in Inv :
        ( /\ pc[i] = "done" /\ calls[i] # <<>>
          /\ ~resp[i].rejected /\ ~ResponseOk(resp[i]) /\ resp[i].body.valid ) =>
            /\ Returned(i)
            /\ Contains(Text(i), resp[i].body.parsed)
            /\ Contains(Text(i), NumStr(resp[i].status))

\* C11: when fetch rejects (no response at all) callClickUpApi returns
\* {error: <message>} without a status field, the message being the thrown
\* value's or "Unknown error occurred"; an outcome has a status field only when
\* a response with a non-success status was received, and the Envelope text
\* then alone carries a status member
C11_StatusOnlyFromResponse ==
    \A i \in Inv :
        (variant = "index" /\ pc[i] = "done" /\ calls[i] # <<>>) =>
            /\ resp[i].rejected =>
                  /\ result[i].isError
                  /\ ~result[i].hasStatus
                  /\ result[i].error =
                        <<"\"", IF resp[i].message = "" THEN "Unknown error occurred"
                                ELSE resp[i].message, "\"">>
            /\ result[i].hasStatus => (~resp[i].rejected /\ ~ResponseOk(resp[i]))
            /\ Contains(Text(i), ",\"status\":") => (~resp[i].rejected /\ ~ResponseOk(resp[i]))

\* a transport failure without message ended an invocation, another one with message
C11_Witness ==
    \E i \in Inv :
        /\ variant = "index" /\ pc[i] = "done"
        /\ resp[i].rejected /\ resp[i].message = ""
        /\ Text(i) = <<"{\"error\":", "\"", "Unknown error occurred", "\"", "}">>

\* C12: on every 2xx response, also one with an empty or non-JSON body, the
\* caller returns the parsed body, never an {error: ...} outcome, and the
\* Envelope text is the serialization of that body
C12_SuccessPassedThrough ==
    \A i \in Inv :
        ( /\ variant = "index" /\ pc[i] = "done" /\ calls[i] # <<>>
          /\ ~resp[i].rejected /\ ResponseOk(resp[i]) ) =>
            /\ ~result[i].isError
            /\ ~Contains(Text(i), "{\"error\":")
            /\ resp[i].body.valid =>
                  /\ result[i].value = resp[i].body.parsed
                  /\ Text(i) = <<resp[i].body.parsed>>

\* C13: an invocation that passed schema validation never ends in a thrown
\* error: whatever happened (missing credential, upstream non-2xx, transport
\* failure) it ends in a returned text Envelope
C13_FailuresInBand ==
    \A i \in Inv :
        pc[i] \notin {"idle", "fetch"} =>
            /\ ret[i].kind = "envelope"
            /\ ret[i].content[1].type = "text"

\* an invocation of a tool that takes the optional pair folderId / spaceId
PairTool(i) ==
    variant = "part_000" /\ pc[i] # "idle" /\ tool[i] \in {"getLists", "createList"}

\* C14: getLists and createList invoked with folderId and spaceId both omitted
\* end in an InvalidInput transport-level error, not in a text Envelope, and
\* issue no outbound call
C14_BothOmittedInvalidInput ==
    \A i \in Inv :
        (PairTool(i) /\ input[i].folderId = UNDEF /\ input[i].spaceId = UNDEF) =>
            /\ pc[i] = "thrown"
            /\ ret[i].kind # "envelope"
            /\ calls[i] = <<>>

\* the url of the one call that invocation i has issued is that of endpoint
CallsEndpoint(i, endpoint) ==
    /\ Len(calls[i]) = 1
    /\ calls[i][1].url = <<"https://api.clickup.com/api/", "v2", "/">> \o endpoint

\* C15 as claimed: with folderId and spaceId both supplied the path is
\* folder/{folderId}/list, with only spaceId supplied it is space/{spaceId}/list
C15_FolderFirstWhenSupplied ==
    \A i \in Inv :
        PairTool(i) =>
            /\ (input[i].folderId # UNDEF /\ input[i].spaceId # UNDEF) =>
                  CallsEndpoint(i, <<"folder/", input[i].folderId, "/list">>)
            /\ (input[i].folderId = UNDEF /\ input[i].spaceId # UNDEF) =>
                  CallsEndpoint(i, <<"space/", input[i].spaceId, "/list">>)

\* C15 amended: a non-empty folderId gives folder/{folderId}/list whatever
\* spaceId is; otherwise a non-empty spaceId gives space/{spaceId}/list; an
\* empty string counts as omitted, and with neither no call is issued
C15_FolderFirstWhenNonEmpty ==
    \A i \in Inv :
        PairTool(i) =>
            /\ ~Falsy(input[i].folderId) =>
                  CallsEndpoint(i, <<"folder/", input[i].folderId, "/list">>)
            /\ (Falsy(input[i].folderId) /\ ~Falsy(input[i].spaceId)) =>
                  CallsEndpoint(i, <<"space/", input[i].spaceId, "/list">>)
            /\ (Falsy(input[i].folderId) /\ Falsy(input[i].spaceId)) => calls[i] = <<>>

\* both supplied: one invocation in flight to the folder path, while another,
\* given only spaceId, is in flight to the space path
C15_Witness ==
    \E i, j \in Inv :
        /\ PairTool(i) /\ pc[i] = "fetch"
        /\ input[i].folderId = "F1" /\ input[i].spaceId = "S1"
        /\ calls[i][1].url = <<"https://api.clickup.com/api/", "v2", "/", "folder/", "F1", "/list">>
        /\ PairTool(j) /\ pc[j] = "fetch"
        /\ input[j].folderId = UNDEF /\ input[j].spaceId = "S1"
        /\ calls[j][1].url = <<"https://api.clickup.com/api/", "v2", "/", "space/", "S1", "/list">>

\* C16 as claimed: every outbound request of every tool carries an
\* Authorization header, equal to the invocation's credential verbatim, and
\* Content-Type: application/json
C16_AuthorizationOnEveryCall ==
    \A i \in Inv :
        \A k \in 1..Len(calls[i]) :
            /\ calls[i][k].Authorization # UNDEF
            /\ calls[i][k].Authorization = apiKey[i]
            /\ calls[i][k].ContentType = "application/json"

\* C16 amended: every request issued through the generic caller carries
\* Authorization equal to the invocation's credential verbatim and
\* Content-Type: application/json; the token exchange of the auth tool, which
\* has no credential yet, carries Content-Type: application/json and no
\* Authorization header
C16_AuthorizationExceptAuth ==
    \A i \in Inv :
        \A k \in 1..Len(calls[i]) :
            /\ calls[i][k].ContentType = "application/json"
            /\ tool[i] # "auth" =>
                  /\ calls[i][k].Authorization # UNDEF
                  /\ calls[i][k].Authorization = apiKey[i]
            /\ tool[i] = "auth" => calls[i][k].Authorization = UNDEF

\* a token exchange and a call with a credential are in flight together
C16_Witness ==
    \E i, j \in Inv :
        /\ tool[i] = "auth" /\ pc[i] = "fetch"
        /\ calls[i][1].Authorization = UNDEF
        /\ tool[j] = "getSpaces" /\ pc[j] = "fetch"
        /\ calls[j][1].Authorization = "tk1"

\* the url of the call that callClickUpApi has issued for invocation i
CallUrl(i) == calls[i][1].url

\* how often the token occurs in the text
Occurrences(text, token) == Cardinality({k \in 1..Len(text) : text[k] = token})

C18_BodyIffMethodAndSupplied ==
    \A i \in Inv :
        (tool[i] = "callClickUpApi" /\ calls[i] # <<>>) =>
            /\ calls[i][1].hasBody <=>
                  (input[i].method \in {"POST", "PUT", "PATCH"} /\ input[i].body.given)
            /\ calls[i][1].method = input[i].method
            /\ calls[i][1].method \in {"GET", "DELETE"} =>
                  (~calls[i][1].hasBody /\ calls[i][1].body = <<>>)
            /\ (calls[i][1].hasBody /\ input[i].body.fields = <<>>) => calls[i][1].body = <<>>
            /\ (calls[i][1].hasBody /\ input[i].body.fields # <<>>) =>
                  calls[i][1].body = << <<"name", "N">> >>

\* a DELETE for which a body was supplied is in flight without it
C18_Witness ==
    \E i \in Inv :
        /\ tool[i] = "callClickUpApi" /\ pc[i] = "fetch"
        /\ input[i].method = "DELETE" /\ input[i].body.given
        /\ ~calls[i][1].hasBody

\* C19: every value that a tool handler returns, on success and on every
\* failure path, is an Envelope whose content is a sequence of exactly one
\* element, of type "text", with a string text
C19_SingleTextElement ==
    \A i \in Inv :
        pc[i] = "done" =>
            /\ ret[i].kind = "envelope"
            /\ Len(ret[i].content) = 1
            /\ ret[i].content[1].type = "text"
            /\ \A k \in 1..Len(Text(i)) : Text(i)[k] \notin {UNDEF, NULL}

\* a handler has returned after a transport failure while another invocation is in flight
C19_Witness ==
    \E i \in Inv :
        /\ pc[i] = "done" /\ resp[i].rejected /\ Len(ret[i].content) = 1
        /\ \E j \in Inv : pc[j] = "fetch"

\* C20: once init() has run the registry holds each tool name exactly once,
\* and no step of any invocation, whatever its outcome, adds, removes or
\* changes a descriptor: the registered names stay those of init()
C20_RegistryUniqueAndStable ==
    [][registry # <<>> =>
          /\ registry' = registry
          /\ Cardinality(Registered) = Len(registry)
          /\ Registered = (IF variant = "index" THEN IndexTools ELSE OAuthTools)]_vars

\* invocations have ended in an Envelope and in flight, the registry in place
C20_Witness ==
    /\ Len(registry) = Cardinality(IndexTools)
    /\ \E i, j \in Inv :
          /\ pc[i] = "done" /\ resp[i].status = 404
          /\ pc[j] = "fetch"

\* C21: the auth tool POSTs {client_id, client_secret, code, grant_type:
\* "authorization_code", redirect_uri} to
\* https://api.clickup.com/api/v2/oauth/token, and whenever it returns the
\* "Authentication successful" Envelope the token of the exchange is in the
\* key-value store under the key of that client_id
C21_SuccessMeansPersisted ==
    \A i \in Inv :
        (variant = "part_000" /\ tool[i] = "auth" /\ pc[i] # "idle") =>
            /\ calls[i] = <<AuthCall>>
            /\ calls[i][1].method = "POST"
            /\ calls[i][1].url = <<"https://api.clickup.com/api/v2/oauth/token">>
            /\ (pc[i] = "done" /\ Contains(Text(i),
                    "Authentication successful. You can now use the ClickUp API.")) =>
                  kv[TokenKey("c1")] = resp[i].body.parsed

\* C22: searchDocs given a workspace id and no other parameter issues GET
\* https://api.clickup.com/api/v3/workspaces/{id}/docs?deleted=false&archived=false&limit=50,
\* the query holding deleted, archived and limit with their defaults in that
\* order and none of the optional parameters
C22_SearchDocsDefaults ==
    \A i \in Inv :
        (tool[i] = "searchDocs" /\ calls[i] # <<>>) =>
            /\ calls[i][1].method = "GET"
            /\ calls[i][1].url =
                  <<"https://api.clickup.com/api/", "v3", "/workspaces/",
                    IF variant = "index" THEN TeamId ELSE input[i].workspaceId,
                    "/docs", "?deleted=false&archived=false&limit=50">>

\* the values of the optional createTask inputs that invocation i supplied
SuppliedTaskValues(i) ==
    {v \in {input[i].description, input[i].status, input[i].priority, input[i].dueDate} :
        v # UNDEF}

\* C23: createTask with listId "L1" and name "T" issues
\* POST https://api.clickup.com/api/v2/list/L1/task; the body never has a
\* listId key, has one field per supplied optional input and no other besides
\* name, and is {"name":"T"} when no optional input is supplied
C23_CreateTaskBody ==
    \A i \in Inv :
        (tool[i] = "createTask" /\ calls[i] # <<>>) =>
            LET b == calls[i][1].body
            IN  /\ calls[i][1].method = "POST"
                /\ calls[i][1].url =
                      <<"https://api.clickup.com/api/", "v2", "/", "list/", "L1", "/task">>
                /\ \A k \in 1..Len(b) : b[k][1] # "listId"
                /\ {b[k][2] : k \in 1..Len(b)} = {"T"} \cup SuppliedTaskValues(i)
                /\ Len(b) = 1 + Cardinality(SuppliedTaskValues(i))
                /\ SuppliedTaskValues(i) = {} => b = << <<"name", "T">> >>

\* createTask has issued its call with a description and without a due date
C23_Witness ==
    \E i \in Inv :
        /\ tool[i] = "createTask"
        /\ pc[i] = "fetch"
        /\ input[i].description = "d"
        /\ input[i].dueDate = UNDEF
        /\ input[i].status = UNDEF
        /\ input[i].priority = UNDEF
        /\ calls[i][1].body = << <<"name", "T">>, <<"description", "d">> >>

\* the camelCase input names whose ClickUp field is snake_case
CamelCaseNames ==
    {"multipleAssignees", "isPrivate", "adminCanManage", "dueDate", "dueDateTime",
     "unsetStatus"}

\* the body of invocation i's call has the field
BodyHas(i, key, value) ==
    \E k \in 1..Len(calls[i][1].body) : calls[i][1].body[k] = <<key, value>>

\* C24: a forwarded body carries no field under a camelCase input name; a
\* supplied due date, due-date-time flag and unset-status flag are carried
\* under due_date, due_date_time and unset_status
C24_UpstreamNames ==
    \A i \in Inv :
        calls[i] # <<>> =>
            /\ \A k \in 1..Len(calls[i][1].body) :
                    calls[i][1].body[k][1] \notin CamelCaseNames
            /\ input[i].dueDate # UNDEF => BodyHas(i, "due_date", input[i].dueDate)
            /\ input[i].dueDateTime # UNDEF =>
                    BodyHas(i, "due_date_time", input[i].dueDateTime)
            /\ input[i].unsetStatus # UNDEF =>
                    BodyHas(i, "unset_status", input[i].unsetStatus)

DocTools == {"searchDocs", "createDoc", "getDoc", "getDocPages"}

\* C25: the version segment of every tool's outbound url is fixed by the tool:
\* v3 for searchDocs, createDoc, getDoc and getDocPages, v2 for every other
\* tool (the token exchange of auth apart, which has its own url)
C25_VersionByTool ==
    \A i \in Inv :
        (calls[i] # <<>> /\ tool[i] # "auth") =>
            /\ calls[i][1].url[1] = "https://api.clickup.com/api/"
            /\ calls[i][1].url[2] = IF tool[i] \in DocTools THEN "v3" ELSE "v2"

\* the query of a url: its tokens from "?" on
QueryOf(url) ==
    IF Contains(url, "?")
    THEN SubSeq(url, CHOOSE k \in 1..Len(url) : url[k] = "?", Len(url))
    ELSE <<>>

\* a "+" of a query value read back as a space
FormDecode(v) == IF v = "in+progress" THEN "in progress" ELSE v

\* the query parsed back into its key, value pairs, in order
ParseQuery(q) == [k \in 1..(Len(q) \div 4) |-> <<q[4 * k - 2], FormDecode(q[4 * k])>>]

\* the values parsed under one key, in order
GetAll(pairs, key) ==
    LET sel == SelectSeq(pairs, LAMBDA p : p[1] = key)
    IN  [k \in 1..Len(sel) |-> sel[k][2]]

\* C26: the query of getTasks, parsed back, gives under statuses and under
\* assignees the elements of the input array in order, under page the scalar
\* once, nothing for an omitted input and nothing else; statuses [a, b] alone
\* is written statuses=a&statuses=b
C26_ArrayRoundTrip ==
    \A i \in Inv :
        (tool[i] = "getTasks" /\ calls[i] # <<>>) =>
            LET q == QueryOf(calls[i][1].url)
                parsed == ParseQuery(q)
            IN  /\ GetAll(parsed, "statuses") = input[i].statuses.items
                /\ GetAll(parsed, "assignees") = input[i].assignees.items
                /\ GetAll(parsed, "page") =
                      IF input[i].page = UNDEF THEN <<>> ELSE <<input[i].page>>
                /\ Len(parsed) = Len(input[i].statuses.items) + Len(input[i].assignees.items)
                                   + (IF input[i].page = UNDEF THEN 0 ELSE 1)
                /\ Len(q) = 4 * Len(parsed)
                /\ (/\ input[i].statuses = Arr(<<"a", "b">>)
                    /\ ~input[i].assignees.given
                    /\ input[i].page = UNDEF) =>
                       q = <<"?", "statuses", "=", "a", "&", "statuses", "=", "b">>

\* getTasks has issued its call with page 2, statuses [a, b] and assignees
\* [u1, u2]
C26_Witness ==
    \E i \in Inv :
        /\ tool[i] = "getTasks"
        /\ pc[i] = "fetch"
        /\ input[i].page = "2"
        /\ input[i].statuses = Arr(<<"a", "b">>)
        /\ input[i].assignees = Arr(<<"u1", "u2">>)
        /\ Occurrences(calls[i][1].url, "statuses") = 2

\* C27: when the token exchange of auth settles with a failed request or a
\* non-ok response, the token store is left as it was and the Envelope text
\* starts with "Authentication error: " after a failed request and with
\* "Authentication failed: " after a non-ok response
C27_StoreOnlyAfterOk ==
    [][\A i \in Inv :
          (/\ variant = "part_000"
           /\ tool[i] = "auth"
           /\ pc[i] = "fetch"
           /\ pc'[i] = "done"
           /\ (resp'[i].rejected \/ ~ResponseOk(resp'[i]))) =>
              /\ kv' = kv
              /\ ret'[i].kind = "envelope"
              /\ ret'[i].content[1].text[1] =
                    IF resp'[i].rejected THEN "Authentication error: "
                    ELSE "Authentication failed: "]_vars

\* saveToken or getToken is called by i in this step and completes
StoreCall(i, name) ==
    /\ pc[i] = "idle"
    /\ pc'[i] = "done"
    /\ tool'[i] = name

\* C28: after saveToken(c, t) has completed with the store available (the
\* namespace is there and the put did not throw), getToken(c) gives t, also when a token was saved for c before, and gives
\* for every other client what it gave before; a getToken call returns null
\* for a client without saved token and when the store is not available, and
\* else the token saved last
C28_TokenRoundTrip ==
    [][\A i \in Inv :
          /\ (StoreCall(i, "saveToken") /\ KvAvailable(env) /\ ~result'[i].threw) =>
                /\ GetToken(kv', env, input'[i].clientId, TRUE) = input'[i].token
                /\ \A c \in ClientIds \ {input'[i].clientId} :
                       GetToken(kv', env, c, TRUE) = GetToken(kv, env, c, TRUE)
          /\ StoreCall(i, "getToken") =>
                /\ kv' = kv
                /\ (\/ kv[TokenKey(input'[i].clientId)] = UNDEF
                    \/ ~KvAvailable(env)
                    \/ result'[i].threw) => ret'[i] = Value(NULL)
                /\ (/\ kv[TokenKey(input'[i].clientId)] # UNDEF
                    /\ KvAvailable(env)
                    /\ ~result'[i].threw) =>
                       JsonStringify(ret'[i].content[1]) = kv[TokenKey(input'[i].clientId)]]_vars

\* getToken has returned for c1 the token saved for c1, another token being
\* saved for c2
C28_Witness ==
    \E i \in Inv :
        /\ tool[i] = "getToken"
        /\ pc[i] = "done"
        /\ input[i].clientId = "c1"
        /\ ret[i] = Value("{\"access_token\":\"t2\"}")
        /\ kv[TokenKey("c2")] = OkBody.parsed

\* C29: a request is routed by its pathname alone: /sse and /sse/message to
\* the SSE transport, /mcp to the JSON-RPC transport, every other pathname to
\* the response 404 "Not found"; a tool handler is entered and an outbound
\* call issued only for a routed request, never for one answered 404
C29_RoutedByPathOnly ==
    [][\A i \in Inv :
          /\ (pc[i] = "idle" /\ pc'[i] # "idle") =>
                /\ tool'[i] = "fetch"
                /\ calls'[i] = <<>>
                /\ IF input'[i].pathname \in {"/sse", "/sse/message"}
                   THEN pc'[i] = "routed" /\ ret'[i] = Routed("sse")
                   ELSE IF input'[i].pathname = "/mcp"
                   THEN pc'[i] = "routed" /\ ret'[i] = Routed("mcp")
                   ELSE pc'[i] = "done" /\ ret'[i] = NotFound
          /\ (tool'[i] # tool[i] /\ tool'[i] \notin {"none", "fetch"}) => pc[i] = "routed"
          /\ (calls'[i] # <<>> /\ calls[i] = <<>>) => pc[i] = "routed"
          /\ (tool[i] = "fetch" /\ pc[i] = "done" /\ ret[i] = NotFound) =>
                /\ calls'[i] = <<>>
                /\ tool'[i] \in {"fetch", "none"}]_vars

\* a POST to /sse/ has been answered 404 while the agent has its tools
C29_Witness ==
    \E i \in Inv :
        /\ tool[i] = "fetch"
        /\ pc[i] = "done"
        /\ input[i] = [pathname |-> "/sse/", method |-> "POST"]
        /\ ret[i] = NotFound
        /\ registry # <<>>

\* the upstream field of each optional updateList input and the input's value
UpdateListSupplied(i) ==
    SelectSeq(<< <<"name", input[i].name>>, <<"content", input[i].content>>,
                 <<"due_date", input[i].dueDate>>,
                 <<"due_date_time", input[i].dueDateTime>>,
                 <<"priority", input[i].priority>>, <<"assignee", input[i].assignee>>,
                 <<"status", input[i].status>>, <<"unset_status", input[i].unsetStatus>> >>,
              LAMBDA f : f[2] # UNDEF)

\* C30: updateList issues PUT .../v2/list/L1 with a body that has, under its
\* upstream name, each input that was supplied (an empty name included) and no
\* other field, never listId; with only listId supplied the body is empty
C30_UpdateListBody ==
    \A i \in Inv :
        (variant = "index" /\ tool[i] = "updateList" /\ calls[i] # <<>>) =>
            LET b == calls[i][1].body
            IN  /\ calls[i][1].method = "PUT"
                /\ calls[i][1].url = <<"https://api.clickup.com/api/", "v2", "/", "list/", "L1">>
                /\ {b[k] : k \in 1..Len(b)} = {UpdateListSupplied(i)[k] :
                                                  k \in 1..Len(UpdateListSupplied(i))}
                /\ Len(b) = Len(UpdateListSupplied(i))
                /\ \A k \in 1..Len(b) : b[k][1] # "listId"
                /\ UpdateListSupplied(i) = <<>> => b = <<>>

\* updateList has issued its call with an empty name, a due date and the
\* unset-status flag false, and nothing else
C30_Witness ==
    \E i \in Inv :
        /\ tool[i] = "updateList"
        /\ pc[i] = "fetch"
        /\ input[i].name = ""
        /\ input[i].dueDate = "1700"
        /\ input[i].unsetStatus = "false"
        /\ Len(calls[i][1].body) = 3

====
